---- MODULE Spec2Model ----
(***************************************************************************)
(* Model of check_position_accuracy_ci.py: log discovery, the CSV parser,  *)
(* the summary-text scanner, the CSV fallback, the aggregator and the      *)
(* threshold verdict of main.                                              *)
(*                                                                         *)
(* Representation.  A text is a tuple of one-character strings.  An        *)
(* Optional value is a tuple of length at most one: <<>> is None and       *)
(* <<x>> is the value x.  A float is a record [nan, num, den]: NaN, or the *)
(* rational num/den (rounding of binary floating point is not modelled).   *)
(***************************************************************************)
EXTENDS Integers, Sequences, FiniteSets, TLC

None == <<>>
Some(x) == <<x>>
IsNone(o) == o = <<>>
Get(o) == o[1]

(***************************************************************************)
(* Texts                                                                   *)
(***************************************************************************)
DigitChars == {"0", "1", "2", "3", "4", "5", "6", "7", "8", "9"}

DigitVal(c) ==
    CASE c = "0" -> 0 [] c = "1" -> 1 [] c = "2" -> 2 [] c = "3" -> 3
      [] c = "4" -> 4 [] c = "5" -> 5 [] c = "6" -> 6 [] c = "7" -> 7
      [] c = "8" -> 8 [] c = "9" -> 9

\* Code points of the characters the model's texts are written in.
CodePoint(c) ==
    CASE c = " " -> 32 [] c = "%" -> 37 [] c = "," -> 44 [] c = "." -> 46
      [] c = "/" -> 47 [] c \in DigitChars -> 48 + DigitVal(c)
      [] c = "A" -> 65 [] c = "B" -> 66 [] c = "a" -> 97 [] c = "c" -> 99
      [] c = "m" -> 109 [] c = "n" -> 110 [] c = "x" -> 120

IsSpace(c) == c = " "

RECURSIVE LStrip(_)
LStrip(s) == IF s # <<>> /\ IsSpace(Head(s)) THEN LStrip(Tail(s)) ELSE s

RECURSIVE RStrip(_)
RStrip(s) ==
    IF s # <<>> /\ IsSpace(s[Len(s)]) THEN RStrip(SubSeq(s, 1, Len(s) - 1)) ELSE s

\* str.strip()
Strip(s) == RStrip(LStrip(s))

\* str.replace(pat, rep): every non-overlapping occurrence, left to right.
RECURSIVE Replace(_, _, _)
Replace(s, pat, rep) ==
    IF Len(s) < Len(pat) THEN s
    ELSE IF SubSeq(s, 1, Len(pat)) = pat
         THEN rep \o Replace(SubSeq(s, Len(pat) + 1, Len(s)), pat, rep)
         ELSE <<Head(s)>> \o Replace(Tail(s), pat, rep)

\* str < str: lexicographic by code point.
RECURSIVE StrLess(_, _)
StrLess(a, b) ==
    IF b = <<>> THEN FALSE
    ELSE IF a = <<>> THEN TRUE
    ELSE IF Head(a) = Head(b) THEN StrLess(Tail(a), Tail(b))
    ELSE CodePoint(Head(a)) < CodePoint(Head(b))

(***************************************************************************)
(* Numbers                                                                 *)
(***************************************************************************)
NaN == [nan |-> TRUE, num |-> 0, den |-> 1]
Float(n, d) == [nan |-> FALSE, num |-> n, den |-> d]

\* a < b and a >= b on floats: every comparison with NaN is false.
FloatLt(a, b) == ~a.nan /\ ~b.nan /\ a.num * b.den < b.num * a.den
FloatGe(a, b) == ~a.nan /\ ~b.nan /\ a.num * b.den >= b.num * a.den

\* a + b on floats; the samples added by the aggregator have den = 1 or 10.
FloatAdd(a, b) ==
    IF a.nan \/ b.nan THEN NaN
    ELSE IF a.den = b.den THEN Float(a.num + b.num, a.den)
    ELSE Float(a.num * b.den + b.num * a.den, a.den * b.den)

\* a / n for an integer n > 0.
FloatDiv(a, n) == IF a.nan THEN NaN ELSE Float(a.num, a.den * n)

RECURSIVE DigitsToInt(_, _)
DigitsToInt(ds, acc) ==
    IF ds = <<>> THEN acc ELSE DigitsToInt(Tail(ds), acc * 10 + DigitVal(Head(ds)))

RECURSIVE Pow10(_)
Pow10(k) == IF k = 0 THEN 1 ELSE 10 * Pow10(k - 1)

IsDigit(c) == c \in DigitChars

\* float(text): surrounding whitespace is ignored; "nan", digits, or digits
\* with one decimal point (at least one digit) parse, anything else is a
\* ValueError.  Signs, exponents and "inf" are outside the texts drawn here.
PyFloat(text) ==
    LET s == Strip(text)
        dots == {i \in 1..Len(s) : s[i] = "."}
        ds == SelectSeq(s, IsDigit)
    IN  IF s = <<"n", "a", "n">> THEN [ok |-> TRUE, val |-> NaN]
        ELSE IF /\ ds # <<>>
                /\ Cardinality(dots) <= 1
                /\ \A i \in 1..Len(s) : IsDigit(s[i]) \/ s[i] = "."
             THEN LET frac == IF dots = {} THEN 0
                              ELSE Len(s) - (CHOOSE i \in dots : TRUE)
                  IN  [ok |-> TRUE, val |-> Float(DigitsToInt(ds, 0), Pow10(frac))]
             ELSE [ok |-> FALSE, val |-> NaN]

parse_decimal(text) ==
    LET c1 == Replace(Strip(text), <<" ", "m">>, <<>>)
        c2 == Replace(c1, <<"c", "m">>, <<>>)
        c3 == Replace(c2, <<" ">>, <<>>)
        c4 == Replace(c3, <<"%">>, <<>>)
        c5 == Replace(c4, <<",">>, <<".">>)
    IN  PyFloat(c5)

parse_integer(text) ==
    LET digits == SelectSeq(text, IsDigit)
    IN  IF digits = <<>> THEN [ok |-> FALSE, val |-> 0]
        ELSE [ok |-> TRUE, val |-> DigitsToInt(digits, 0)]

(***************************************************************************)
(* Records                                                                 *)
(***************************************************************************)
VehicleStats(vid, mean, n) ==
    [vehicle_id |-> vid, mean_error |-> mean, sample_count |-> n]

SummaryMetadata ==
    [generated_at |-> None, total_entries |-> None, active_vehicles |-> None,
     overall_mean |-> None, overall_max |-> None]

(***************************************************************************)
(* CSV parser and aggregator                                               *)
(*                                                                         *)
(* A CSV file is [fieldnames, rows]: fieldnames is None for a file without *)
(* a header row, else the set of its column names; a row gives, for each   *)
(* of the two columns read, None (the row is too short to have the column) *)
(* or the cell's text.  The sample table keeps the insertion order of its  *)
(* keys in `order`.                                                        *)
(***************************************************************************)
EmptyErrors == [order |-> <<>>, samples |-> <<>>]

\* errors[vid].append(error) on the defaultdict(list)
AppendError(errors, vid, error) ==
    IF \E i \in 1..Len(errors.order) : errors.order[i] = vid
    THEN LET i == CHOOSE j \in 1..Len(errors.order) : errors.order[j] = vid
         IN  [errors EXCEPT !.samples[i] = Append(@, error)]
    ELSE [order |-> Append(errors.order, vid),
          samples |-> Append(errors.samples, <<error>>)]

\* ReadRow with `vid is None` in place of `not vid`: a row with an empty
\* vehicle id is kept.
ReadRow_KeepsEmptyId(errors, row) ==
    LET vid == row.VehicleID
        err_text == row.PositionError
    IN  IF IsNone(vid) \/ IsNone(err_text) THEN errors
        ELSE LET parsed == PyFloat(Get(err_text))
             IN  IF ~parsed.ok THEN errors
                 ELSE AppendError(errors, Get(vid), parsed.val)

\* One iteration of the row loop, lines 104-114.
ReadRow(errors, row) ==
    LET vid == row.VehicleID
        err_text == row.PositionError
    IN  IF IsNone(vid) \/ Get(vid) = <<>> \/ IsNone(err_text) THEN errors
        ELSE LET parsed == PyFloat(Get(err_text))
             IN  IF ~parsed.ok THEN errors
                 ELSE AppendError(errors, Get(vid), parsed.val)

RECURSIVE ReadRows(_, _)
ReadRows(errors, rows) ==
    IF rows = <<>> THEN errors ELSE ReadRows(ReadRow(errors, Head(rows)), Tail(rows))

\* Lines 98-101: the header check.  `in None` is a TypeError.
HeaderError(fieldnames) ==
    IF IsNone(fieldnames) THEN "TypeError"
    ELSE IF "VehicleID" \notin Get(fieldnames) \/ "PositionError" \notin Get(fieldnames)
    THEN "SchemaError"
    ELSE "none"

\* Lines 116-119: after the row loop.
FinishRows(errors) ==
    IF errors.order = <<>>
    THEN [raised |-> "EmptyDataset", errors |-> EmptyErrors]
    ELSE [raised |-> "none", errors |-> errors]

load_vehicle_errors(csv) ==
    IF HeaderError(csv.fieldnames) # "none"
    THEN [raised |-> HeaderError(csv.fieldnames), errors |-> EmptyErrors]
    ELSE FinishRows(ReadRows(EmptyErrors, csv.rows))

\* sum(samples): starts from 0 and adds left to right.
RECURSIVE SumFloats(_, _)
SumFloats(samples, acc) ==
    IF samples = <<>> THEN acc ELSE SumFloats(Tail(samples), FloatAdd(acc, Head(samples)))

\* max(samples): keeps the first element unless a later one compares greater.
RECURSIVE MaxFloats(_, _)
MaxFloats(samples, acc) ==
    IF samples = <<>> THEN acc
    ELSE MaxFloats(Tail(samples), IF FloatLt(acc, Head(samples)) THEN Head(samples) ELSE acc)

\* sorted(errors.items()): the indices of the keys in ascending key order.
RECURSIVE SortedKeys(_, _)
SortedKeys(order, todo) ==
    IF todo = {} THEN <<>>
    ELSE LET i == CHOOSE j \in todo : \A k \in todo \ {j} : StrLess(order[j], order[k])
         IN  <<i>> \o SortedKeys(order, todo \ {i})

\* compute_stats dividing each sum by the number of vehicles.
compute_stats_DividesByVehicles(errors) ==
    LET idx == SortedKeys(errors.order, 1..Len(errors.order))
    IN  [k \in 1..Len(idx) |->
            LET samples == errors.samples[idx[k]]
            IN  VehicleStats(errors.order[idx[k]],
                             FloatDiv(SumFloats(samples, Float(0, 1)), Len(idx)),
                             Len(samples))]

compute_stats(errors) ==
    LET idx == SortedKeys(errors.order, 1..Len(errors.order))
    IN  [k \in 1..Len(idx) |->
            LET samples == errors.samples[idx[k]]
            IN  VehicleStats(errors.order[idx[k]],
                             FloatDiv(SumFloats(samples, Float(0, 1)), Len(samples)),
                             Len(samples))]

RECURSIVE Flatten(_)
Flatten(lists) == IF lists = <<>> THEN <<>> ELSE Head(lists) \o Flatten(Tail(lists))

RECURSIVE SumLens(_)
SumLens(lists) == IF lists = <<>> THEN 0 ELSE Len(Head(lists)) + SumLens(Tail(lists))

\* The metadata both CSV branches of load_vehicle_stats build.
CsvMetadata(errors) ==
    LET all_errors == Flatten(errors.samples)
        base == [SummaryMetadata EXCEPT
                    !.total_entries = Some(SumLens(errors.samples)),
                    !.active_vehicles = Some(Len(errors.order))]
    IN  IF all_errors = <<>> THEN base
        ELSE [base EXCEPT
                !.overall_mean =
                    Some(FloatDiv(SumFloats(all_errors, Float(0, 1)), Len(all_errors))),
                !.overall_max = Some(MaxFloats(Tail(all_errors), Head(all_errors)))]

(***************************************************************************)
(* Summary-text scanner                                                    *)
(*                                                                         *)
(* A line, after strip(), is [prefix, rest]: the recognised prefix it      *)
(* starts with ("blank" for an empty line, "other" for none) and the text  *)
(* after its first colon.                                                  *)
(***************************************************************************)
ScanInit ==
    [stats |-> <<>>, metadata |-> SummaryMetadata,
     vehicle_id |-> None, samples |-> None, raised |-> "none"]

Malformed(st) == [st EXCEPT !.raised = "MalformedNumber"]

\* ScanLine where a `vehicle:` line keeps the pending sample count.
ScanLine_KeepsSamples(st, line) ==
    LET rest == line.rest
    IN  CASE line.prefix = "blank" -> st
          [] line.prefix = "generated:" ->
                [st EXCEPT !.metadata.generated_at = Some(Strip(rest))]
          [] line.prefix = "total entries logged:" ->
                LET n == parse_integer(rest)
                IN  IF n.ok THEN [st EXCEPT !.metadata.total_entries = Some(n.val)]
                    ELSE Malformed(st)
          [] line.prefix = "active vehicles:" ->
                LET n == parse_integer(rest)
                IN  IF n.ok THEN [st EXCEPT !.metadata.active_vehicles = Some(n.val)]
                    ELSE Malformed(st)
          [] line.prefix = "average position error:" ->
                LET x == parse_decimal(rest)
                IN  IF x.ok THEN [st EXCEPT !.metadata.overall_mean = Some(x.val)]
                    ELSE Malformed(st)
          [] line.prefix = "maximum position error:" ->
                LET x == parse_decimal(rest)
                IN  IF x.ok THEN [st EXCEPT !.metadata.overall_max = Some(x.val)]
                    ELSE Malformed(st)
          [] line.prefix = "vehicle:" ->
                \* ^Vehicle:\s*(.+)$ needs a name after the colon
                IF Strip(rest) # <<>>
                THEN [st EXCEPT !.vehicle_id = Some(Strip(rest))]
                ELSE st
          [] line.prefix = "samples:" ->
                IF IsNone(st.vehicle_id) THEN st
                ELSE LET n == parse_integer(rest)
                     IN  IF n.ok THEN [st EXCEPT !.samples = Some(n.val)]
                         ELSE Malformed(st)
          [] line.prefix = "avg error:" ->
                IF IsNone(st.vehicle_id) THEN st
                ELSE LET x == parse_decimal(rest)
                     IN  IF ~x.ok THEN Malformed(st)
                         ELSE [st EXCEPT
                                 !.stats = Append(@,
                                     VehicleStats(Get(st.vehicle_id), x.val,
                                         IF IsNone(st.samples) THEN 0 ELSE Get(st.samples))),
                                 !.vehicle_id = None,
                                 !.samples = None]
          [] OTHER -> st

\* ScanLine where a `samples:` line is parsed whether or not a record is open.
ScanLine_ParsesWhenClosed(st, line) ==
    LET rest == line.rest
    IN  CASE line.prefix = "blank" -> st
          [] line.prefix = "generated:" ->
                [st EXCEPT !.metadata.generated_at = Some(Strip(rest))]
          [] line.prefix = "total entries logged:" ->
                LET n == parse_integer(rest)
                IN  IF n.ok THEN [st EXCEPT !.metadata.total_entries = Some(n.val)]
                    ELSE Malformed(st)
          [] line.prefix = "active vehicles:" ->
                LET n == parse_integer(rest)
                IN  IF n.ok THEN [st EXCEPT !.metadata.active_vehicles = Some(n.val)]
                    ELSE Malformed(st)
          [] line.prefix = "average position error:" ->
                LET x == parse_decimal(rest)
                IN  IF x.ok THEN [st EXCEPT !.metadata.overall_mean = Some(x.val)]
                    ELSE Malformed(st)
          [] line.prefix = "maximum position error:" ->
                LET x == parse_decimal(rest)
                IN  IF x.ok THEN [st EXCEPT !.metadata.overall_max = Some(x.val)]
                    ELSE Malformed(st)
          [] line.prefix = "vehicle:" ->
                \* ^Vehicle:\s*(.+)$ needs a name after the colon
                IF Strip(rest) # <<>>
                THEN [st EXCEPT !.vehicle_id = Some(Strip(rest)), !.samples = None]
                ELSE st
          [] line.prefix = "samples:" ->
                IF FALSE THEN st
                ELSE LET n == parse_integer(rest)
                     IN  IF n.ok THEN [st EXCEPT !.samples = Some(n.val)]
                         ELSE Malformed(st)
          [] line.prefix = "avg error:" ->
                IF IsNone(st.vehicle_id) THEN st
                ELSE LET x == parse_decimal(rest)
                     IN  IF ~x.ok THEN Malformed(st)
                         ELSE [st EXCEPT
                                 !.stats = Append(@,
                                     VehicleStats(Get(st.vehicle_id), x.val,
                                         IF IsNone(st.samples) THEN 0 ELSE Get(st.samples))),
                                 !.vehicle_id = None,
                                 !.samples = None]
          [] OTHER -> st

\* One iteration of the line loop, lines 177-222.
ScanLine(st, line) ==
    LET rest == line.rest
    IN  CASE line.prefix = "blank" -> st
          [] line.prefix = "generated:" ->
                [st EXCEPT !.metadata.generated_at = Some(Strip(rest))]
          [] line.prefix = "total entries logged:" ->
                LET n == parse_integer(rest)
                IN  IF n.ok THEN [st EXCEPT !.metadata.total_entries = Some(n.val)]
                    ELSE Malformed(st)
          [] line.prefix = "active vehicles:" ->
                LET n == parse_integer(rest)
                IN  IF n.ok THEN [st EXCEPT !.metadata.active_vehicles = Some(n.val)]
                    ELSE Malformed(st)
          [] line.prefix = "average position error:" ->
                LET x == parse_decimal(rest)
                IN  IF x.ok THEN [st EXCEPT !.metadata.overall_mean = Some(x.val)]
                    ELSE Malformed(st)
          [] line.prefix = "maximum position error:" ->
                LET x == parse_decimal(rest)
                IN  IF x.ok THEN [st EXCEPT !.metadata.overall_max = Some(x.val)]
                    ELSE Malformed(st)
          [] line.prefix = "vehicle:" ->
                \* ^Vehicle:\s*(.+)$ needs a name after the colon
                IF Strip(rest) # <<>>
                THEN [st EXCEPT !.vehicle_id = Some(Strip(rest)), !.samples = None]
                ELSE st
          [] line.prefix = "samples:" ->
                IF IsNone(st.vehicle_id) THEN st
                ELSE LET n == parse_integer(rest)
                     IN  IF n.ok THEN [st EXCEPT !.samples = Some(n.val)]
                         ELSE Malformed(st)
          [] line.prefix = "avg error:" ->
                IF IsNone(st.vehicle_id) THEN st
                ELSE LET x == parse_decimal(rest)
                     IN  IF ~x.ok THEN Malformed(st)
                         ELSE [st EXCEPT
                                 !.stats = Append(@,
                                     VehicleStats(Get(st.vehicle_id), x.val,
                                         IF IsNone(st.samples) THEN 0 ELSE Get(st.samples))),
                                 !.vehicle_id = None,
                                 !.samples = None]
          [] OTHER -> st

RECURSIVE ScanLines(_, _)
ScanLines(st, lines) ==
    IF lines = <<>> \/ st.raised # "none" THEN st
    ELSE ScanLines(ScanLine(st, Head(lines)), Tail(lines))

\* ScanFinish with `if not metadata.active_vehicles`: a parsed 0 is backfilled.
ScanFinish_BackfillsZero(st) ==
    IF st.raised # "none" THEN st
    ELSE IF st.stats = <<>> THEN [st EXCEPT !.raised = "EmptyDataset"]
    ELSE IF IsNone(st.metadata.active_vehicles) \/ st.metadata.active_vehicles = Some(0)
         THEN [st EXCEPT !.metadata.active_vehicles = Some(Len(st.stats))]
         ELSE st

\* Lines 224-230: the checks after the loop.
ScanFinish(st) ==
    IF st.raised # "none" THEN st
    ELSE IF st.stats = <<>> THEN [st EXCEPT !.raised = "EmptyDataset"]
    ELSE IF IsNone(st.metadata.active_vehicles)
         THEN [st EXCEPT !.metadata.active_vehicles = Some(Len(st.stats))]
         ELSE st

\* load_vehicle_stats_from_summary on the lines of an existing file
load_vehicle_stats_from_summary(lines) == ScanFinish(ScanLines(ScanInit, lines))

(***************************************************************************)
(* Files                                                                   *)
(*                                                                         *)
(* A path is [prefix, ts, suffix]: its stem is prefix followed by ts.  The *)
(* file system is the log directory: whether it exists, and the            *)
(* modification time of each file in it.  An explicit --log-file is a name *)
(* in that directory, present or not.                                      *)
(***************************************************************************)
DEFAULT_CSV_GLOB == "position_accuracy_*.csv"
DEFAULT_SUMMARY_GLOB == "statistics_summary_*.txt"

SummaryPath(ts) == [prefix |-> "statistics_summary_", ts |-> ts, suffix |-> ".txt"]
CsvPath(ts) == [prefix |-> "position_accuracy_", ts |-> ts, suffix |-> ".csv"]
OtherPath == [prefix |-> "notes", ts |-> "", suffix |-> ".log"]

Listing(fs) == DOMAIN fs.mtime

\* Path.glob(pattern) over the directory, for the patterns the model draws.
Glob(fs, pattern) ==
    {p \in Listing(fs) :
        CASE pattern = DEFAULT_SUMMARY_GLOB ->
                p.prefix = "statistics_summary_" /\ p.suffix = ".txt"
          [] pattern = DEFAULT_CSV_GLOB ->
                p.prefix = "position_accuracy_" /\ p.suffix = ".csv"
          [] pattern = "*.log" -> p.suffix = ".log"
          [] OTHER -> FALSE}

\* sorted(matches, key=mtime)[-1]: a file of the latest modification time;
\* which one among several of that time is left to the order glob lists them.
Latest(fs, matches) == {p \in matches : \A q \in matches : fs.mtime[q] <= fs.mtime[p]}

RECURSIVE SearchPatterns(_, _)
SearchPatterns(fs, search_patterns) ==
    IF search_patterns = <<>> THEN {[raised |-> "NoLogsFound", path |-> None]}
    ELSE LET matches == Glob(fs, Head(search_patterns))
         IN  IF matches # {}
             THEN {[raised |-> "none", path |-> Some(p)] : p \in Latest(fs, matches)}
             ELSE SearchPatterns(fs, Tail(search_patterns))

\* `if pattern:` is false for None and for the empty string
Truthy(pattern) == ~IsNone(pattern) /\ Get(pattern) # ""

\* find_latest_log trying the CSV glob before the summary glob.
find_latest_log_CsvFirst(fs, pattern) ==
    IF ~fs.exists THEN {[raised |-> "DirectoryNotFound", path |-> None]}
    ELSE SearchPatterns(fs, IF Truthy(pattern) THEN <<Get(pattern)>>
                            ELSE <<DEFAULT_CSV_GLOB, DEFAULT_SUMMARY_GLOB>>)

\* find_latest_log without the check that the directory exists.
find_latest_log_NoDirCheck(fs, pattern) ==
    SearchPatterns(fs, IF Truthy(pattern) THEN <<Get(pattern)>>
                       ELSE <<DEFAULT_SUMMARY_GLOB, DEFAULT_CSV_GLOB>>)

\* The outcomes find_latest_log can have.
find_latest_log(fs, pattern) ==
    IF ~fs.exists THEN {[raised |-> "DirectoryNotFound", path |-> None]}
    ELSE SearchPatterns(fs, IF Truthy(pattern) THEN <<Get(pattern)>>
                            ELSE <<DEFAULT_SUMMARY_GLOB, DEFAULT_CSV_GLOB>>)

\* stem.replace("statistics_summary_", "", 1), as <<what is left of the prefix, ts>>
Timestamp(summary_path) ==
    IF summary_path.prefix = "statistics_summary_" THEN <<"", summary_path.ts>>
    ELSE <<summary_path.prefix, summary_path.ts>>

\* find_matching_csv without the same-timestamp candidate.
find_matching_csv_NewestOnly(fs, summary_path) ==
    LET csv_files == Glob(fs, DEFAULT_CSV_GLOB)
    IN  IF csv_files # {} THEN {Some(p) : p \in Latest(fs, csv_files)} ELSE {None}

\* The paths find_matching_csv can return (None: no CSV at all).
find_matching_csv(fs, summary_path) ==
    LET timestamp == Timestamp(summary_path)
        candidate == CsvPath(timestamp[2])
        csv_files == Glob(fs, DEFAULT_CSV_GLOB)
    IN  IF /\ timestamp # <<"", "">>
           /\ timestamp # <<summary_path.prefix, summary_path.ts>>
           /\ candidate \in Listing(fs)
        THEN {Some(candidate)}
        ELSE IF csv_files # {} THEN {Some(p) : p \in Latest(fs, csv_files)}
        ELSE {None}

(***************************************************************************)
(* Report and verdict                                                      *)
(***************************************************************************)
\* line 310
Marker(item, threshold) ==
    IF FloatLt(item.mean_error, threshold) THEN "OK" ELSE "FAIL"

\* line 337
Failing(stats, threshold) ==
    SelectSeq(stats, LAMBDA item : FloatGe(item.mean_error, threshold))

\* The exception class of each failure.
ExcClass(kind) ==
    CASE kind \in {"DirectoryNotFound", "NoLogsFound", "FileNotFound"} -> "FileNotFoundError"
      [] kind \in {"SchemaError", "EmptyDataset", "MalformedNumber", "UnsupportedFormat"} ->
            "ValueError"
      [] kind = "TypeError" -> "TypeError"

\* line 320: except FileNotFoundError
DiscoveryCatches(kind) == ExcClass(kind) = "FileNotFoundError"

\* line 331: except (OSError, ValueError); FileNotFoundError is an OSError
LoadCatches(kind) == ExcClass(kind) \in {"FileNotFoundError", "ValueError"}

\* load_vehicle_errors, compute_stats and the metadata, as both CSV branches
\* of load_vehicle_stats run them on the file at `path` (lines 249-260, 272-283).
CsvResult(path, r) ==
    IF r.raised # "none"
    THEN [raised |-> r.raised, log_path |-> None, stats |-> <<>>,
          metadata |-> SummaryMetadata]
    ELSE [raised |-> "none", log_path |-> Some(path),
          stats |-> compute_stats(r.errors), metadata |-> CsvMetadata(r.errors)]

LoadCsv(path, csv) == CsvResult(path, load_vehicle_errors(csv))

(***************************************************************************)
(* Inputs                                                                  *)
(***************************************************************************)
MaxMtime == 3
MaxLines == 4
MaxRows == 3
MaxMainLines == 2
MaxMainRows == 1

SeqsUpTo(S, n) == UNION {[1..k -> S] : k \in 0..n}

Line(prefix, rest) == [prefix |-> prefix, rest |-> rest]

\* The lines the end-to-end runs draw summary texts from.
MainLineAlphabet ==
    { Line("vehicle:", <<" ", "A">>),
      Line("samples:", <<" ", "n", "/", "a">>),
      Line("avg error:", <<" ", "1", " ", "m">>),
      Line("avg error:", <<" ", "2", ",", "5">>),
      Line("avg error:", <<" ", "n", "a", "n">>) }

\* The lines the scanner runs draw summary texts from.
LineAlphabet ==
    MainLineAlphabet \cup
    { Line("blank", <<>>),
      Line("vehicle:", <<" ", "B">>),
      Line("samples:", <<" ", "3">>),
      Line("active vehicles:", <<" ", "0">>),
      Line("total entries logged:", <<" ", "1", "2">>),
      Line("maximum position error:", <<" ", "x", "%">>),
      Line("vehicle:", <<>>),
      Line("avg error:", <<" ", "x">>) }

Row(vid, err) == [VehicleID |-> vid, PositionError |-> err]

MainRowAlphabet ==
    { Row(Some(<<"A">>), Some(<<"1">>)),
      Row(Some(<<"A">>), Some(<<"2", ".", "5">>)),
      Row(Some(<<"A">>), Some(<<"n", "a", "n">>)),
      Row(Some(<<"B">>), Some(<<"x">>)) }

RowAlphabet ==
    { Row(vid, err) :
        vid \in {None, Some(<<>>), Some(<<"A">>), Some(<<"B">>)},
        err \in {None, Some(<<"x">>), Some(<<"1">>), Some(<<"2", ".", "5">>),
                 Some(<<"n", "a", "n">>)} }

Headers ==
    { None, Some({"Timestamp", "VehicleID"}), Some({"Timestamp", "PositionError"}),
      Some({"Timestamp"}), Some({"Timestamp", "VehicleID", "PositionError"}) }

MainSummaryTexts == SeqsUpTo(MainLineAlphabet, MaxMainLines)

MainCsvFiles ==
    { [fieldnames |-> h, rows |-> rows] :
        h \in {None, Some({"Timestamp", "VehicleID"}),
               Some({"Timestamp", "VehicleID", "PositionError"})},
        rows \in SeqsUpTo(MainRowAlphabet, MaxMainRows) }

DEFAULT_THRESHOLD == Float(15, 10)

Thresholds == {DEFAULT_THRESHOLD, Float(25, 10), NaN}

DirFiles == {SummaryPath(""), SummaryPath("t1"), CsvPath(""), CsvPath("t1")}

FileSystems ==
    {[exists |-> FALSE, mtime |-> <<>>]} \cup
    {[exists |-> TRUE, mtime |-> m] :
        m \in UNION {[D -> 1..MaxMtime] : D \in SUBSET DirFiles}}

\* parse_args: --log-file, --pattern, --threshold (--log-dir is the directory of fs)
Args ==
    [log_file : {None, Some(SummaryPath("t1")), Some(CsvPath("t1")), Some(OtherPath)},
     pattern : {None, Some(""), Some(DEFAULT_CSV_GLOB), Some("*.log")},
     threshold : Thresholds]

(***************************************************************************)
(* State                                                                   *)
(***************************************************************************)
VARIABLES
    pc,              \* where the run is
    fs,              \* the log directory
    args,            \* the parsed command line
    candidate_path,  \* main: the path handed to load_vehicle_stats
    discovered,      \* find_latest_log was called
    summary_raised,  \* the failure of the summary parse, "none" if none
    searched,        \* find_matching_csv was called
    csv_fallback,    \* the path find_matching_csv returned
    log_path,        \* the path load_vehicle_stats returned
    stats,           \* the result set
    metadata,        \* its metadata
    raised,          \* the failure that ended the run, "none" if none
    markers,         \* print_report: the marker printed for each vehicle
    failing,         \* main: the failing vehicles
    exit_status,     \* what main returned
    unhandled,       \* an exception left main
    text,            \* parser runs: the lines or rows consumed so far
    scan,            \* parser runs: the scanner's state
    table            \* parser runs: the CSV reader's state

vars ==
    <<pc, fs, args, candidate_path, discovered, summary_raised, searched,
      csv_fallback, log_path, stats, metadata, raised, markers, failing,
      exit_status, unhandled, text, scan, table>>

parserVars == <<text, scan, table>>
inputVars == <<fs, args>>

NoFs == [exists |-> FALSE, mtime |-> <<>>]
NoArgs == [log_file |-> None, pattern |-> None, threshold |-> DEFAULT_THRESHOLD]

Blank ==
    /\ candidate_path = None
    /\ discovered = FALSE
    /\ summary_raised = "none"
    /\ searched = FALSE
    /\ csv_fallback = None
    /\ log_path = None
    /\ stats = <<>>
    /\ metadata = SummaryMetadata
    /\ raised = "none"
    /\ markers = <<>>
    /\ failing = <<>>
    /\ exit_status = None
    /\ unhandled = FALSE
    /\ text = <<>>
    /\ scan = ScanInit
    /\ table = [fieldnames |-> None, errors |-> EmptyErrors]

Init ==
    /\ pc = "main"
    /\ fs \in FileSystems
    /\ args \in Args
    /\ Blank

(***************************************************************************)
(* main                                                                    *)
(***************************************************************************)
\* The run ends with the failure `kind` raised inside load_vehicle_stats:
\* lines 331-333 catch it, or it leaves main.
RaiseInLoad(kind) ==
    /\ raised' = kind
    /\ pc' = "done"
    /\ exit_status' = IF LoadCatches(kind) THEN Some(2) ELSE None
    /\ unhandled' = ~LoadCatches(kind)
    /\ UNCHANGED <<log_path, stats, metadata>>

Return(r) ==
    /\ log_path' = r.log_path
    /\ stats' = r.stats
    /\ metadata' = r.metadata
    /\ pc' = "report"
    /\ UNCHANGED <<raised, exit_status, unhandled>>

\* lines 318-327
Discover ==
    /\ pc = "main"
    /\ IF ~IsNone(args.log_file)
       THEN /\ candidate_path' = args.log_file
            /\ pc' = "load"
            /\ UNCHANGED <<discovered, raised, exit_status, unhandled>>
       ELSE \E out \in find_latest_log(fs, args.pattern) :
            /\ discovered' = TRUE
            /\ IF out.raised = "none"
               THEN /\ candidate_path' = out.path
                    /\ pc' = "load"
                    /\ UNCHANGED <<raised, exit_status, unhandled>>
               ELSE /\ raised' = out.raised
                    /\ pc' = "done"
                    /\ exit_status' = IF DiscoveryCatches(out.raised) THEN Some(2) ELSE None
                    /\ unhandled' = ~DiscoveryCatches(out.raised)
                    /\ UNCHANGED candidate_path
    /\ UNCHANGED <<summary_raised, searched, csv_fallback, log_path, stats, metadata,
                   markers, failing>>
    /\ UNCHANGED <<inputVars, parserVars>>

\* load_vehicle_stats, lines 248-260: the path is a CSV
LoadCsvFile ==
    /\ pc = "load"
    /\ Get(candidate_path).suffix = ".csv"
    /\ IF Get(candidate_path) \notin Listing(fs)
       THEN RaiseInLoad("FileNotFound")
       ELSE \E csv \in MainCsvFiles :
            LET r == LoadCsv(Get(candidate_path), csv)
            IN  IF r.raised # "none" THEN RaiseInLoad(r.raised) ELSE Return(r)
    /\ UNCHANGED <<candidate_path, discovered, summary_raised, searched, csv_fallback,
                   markers, failing>>
    /\ UNCHANGED <<inputVars, parserVars>>

\* load_vehicle_stats, lines 262-267: the path is a summary text
LoadSummaryFile ==
    /\ pc = "load"
    /\ Get(candidate_path).suffix = ".txt"
    /\ IF Get(candidate_path) \notin Listing(fs)
       THEN RaiseInLoad("FileNotFound") /\ UNCHANGED summary_raised
       ELSE \E lines \in MainSummaryTexts :
            LET r == load_vehicle_stats_from_summary(lines)
            IN  IF r.raised = "none"
                THEN /\ Return([log_path |-> candidate_path, stats |-> r.stats,
                                metadata |-> r.metadata])
                     /\ UNCHANGED summary_raised
                ELSE /\ summary_raised' = r.raised
                     /\ pc' = "except"
                     /\ UNCHANGED <<log_path, stats, metadata, raised, exit_status,
                                    unhandled>>
    /\ UNCHANGED <<candidate_path, discovered, searched, csv_fallback, markers, failing>>
    /\ UNCHANGED <<inputVars, parserVars>>

\* load_vehicle_stats, lines 266-285: except ValueError
Fallback ==
    /\ pc = "except"
    /\ searched' = TRUE
    /\ \E found \in find_matching_csv(fs, Get(candidate_path)) :
        /\ csv_fallback' = found
        /\ IF IsNone(found)
           THEN RaiseInLoad(summary_raised)
           ELSE \E csv \in MainCsvFiles :
                LET r == LoadCsv(Get(found), csv)
                IN  IF r.raised # "none" THEN RaiseInLoad(r.raised) ELSE Return(r)
    /\ UNCHANGED <<candidate_path, discovered, summary_raised, markers, failing>>
    /\ UNCHANGED <<inputVars, parserVars>>

\* load_vehicle_stats, line 287
Unsupported ==
    /\ pc = "load"
    /\ Get(candidate_path).suffix \notin {".csv", ".txt"}
    /\ RaiseInLoad("UnsupportedFormat")
    /\ UNCHANGED <<candidate_path, discovered, summary_raised, searched, csv_fallback,
                   markers, failing>>
    /\ UNCHANGED <<inputVars, parserVars>>

\* print_report, lines 309-311
PrintReport ==
    /\ pc = "report"
    /\ markers' = [i \in 1..Len(stats) |->
                      [vehicle_id |-> stats[i].vehicle_id,
                       marker |-> Marker(stats[i], args.threshold)]]
    /\ pc' = "verdict"
    /\ UNCHANGED <<candidate_path, discovered, summary_raised, searched, csv_fallback,
                   log_path, stats, metadata, raised, failing, exit_status, unhandled>>
    /\ UNCHANGED <<inputVars, parserVars>>

\* lines 337-346
Verdict ==
    /\ pc = "verdict"
    /\ failing' = Failing(stats, args.threshold)
    /\ exit_status' = IF failing' # <<>> THEN Some(1) ELSE Some(0)
    /\ pc' = "done"
    /\ UNCHANGED <<candidate_path, discovered, summary_raised, searched, csv_fallback,
                   log_path, stats, metadata, raised, markers, unhandled>>
    /\ UNCHANGED <<inputVars, parserVars>>

Next ==
    \/ Discover
    \/ LoadCsvFile
    \/ LoadSummaryFile
    \/ Fallback
    \/ Unsupported
    \/ PrintReport
    \/ Verdict

Spec == Init /\ [][Next]_vars

(***************************************************************************)
(* The summary-text scanner, line by line: load_vehicle_stats_from_summary *)
(* on a text of at most MaxLines lines, read as the loop consumes it.      *)
(***************************************************************************)
InitSummary ==
    /\ pc = "scan"
    /\ fs = NoFs
    /\ args = NoArgs
    /\ Blank

\* lines 177-222, one line
ScanStep ==
    /\ pc = "scan"
    /\ scan.raised = "none"
    /\ Len(text) < MaxLines
    /\ \E line \in LineAlphabet :
        /\ text' = Append(text, line)
        /\ scan' = ScanLine(scan, line)
    /\ UNCHANGED <<pc, fs, args, candidate_path, discovered, summary_raised, searched,
                   csv_fallback, log_path, stats, metadata, raised, markers, failing,
                   exit_status, unhandled, table>>

\* lines 224-230: the text has ended, or a line raised
ScanEnd ==
    /\ pc = "scan"
    /\ LET r == ScanFinish(scan)
       IN  /\ raised' = r.raised
           /\ stats' = IF r.raised = "none" THEN r.stats ELSE <<>>
           /\ metadata' = IF r.raised = "none" THEN r.metadata ELSE SummaryMetadata
    /\ pc' = "scanned"
    /\ UNCHANGED <<fs, args, candidate_path, discovered, summary_raised, searched,
                   csv_fallback, log_path, markers, failing, exit_status, unhandled,
                   text, scan, table>>

NextSummary == ScanStep \/ ScanEnd

SpecSummary == InitSummary /\ [][NextSummary]_vars

(***************************************************************************)
(* The CSV branch of load_vehicle_stats, row by row, on a file of at most  *)
(* MaxRows rows.                                                           *)
(***************************************************************************)
InitCsv ==
    /\ pc = "open"
    /\ fs = NoFs
    /\ args = NoArgs
    /\ Blank

\* lines 96-103
OpenCsv ==
    /\ pc = "open"
    /\ \E h \in Headers :
        /\ table' = [fieldnames |-> h, errors |-> EmptyErrors]
        /\ raised' = HeaderError(h)
        /\ pc' = IF HeaderError(h) = "none" THEN "rows" ELSE "read"
    /\ UNCHANGED <<fs, args, candidate_path, discovered, summary_raised, searched,
                   csv_fallback, log_path, stats, metadata, markers, failing,
                   exit_status, unhandled, text, scan>>

\* lines 104-114, one row
ReadRowStep ==
    /\ pc = "rows"
    /\ Len(text) < MaxRows
    /\ \E row \in RowAlphabet :
        /\ text' = Append(text, row)
        /\ table' = [table EXCEPT !.errors = ReadRow(table.errors, row)]
    /\ UNCHANGED <<pc, fs, args, candidate_path, discovered, summary_raised, searched,
                   csv_fallback, log_path, stats, metadata, raised, markers, failing,
                   exit_status, unhandled, scan>>

\* lines 116-119 and 250-260: the rows have ended
ReadEnd ==
    /\ pc = "rows"
    /\ LET r == CsvResult(CsvPath("t1"), FinishRows(table.errors))
       IN  /\ raised' = r.raised
           /\ log_path' = r.log_path
           /\ stats' = r.stats
           /\ metadata' = r.metadata
    /\ pc' = "read"
    /\ UNCHANGED <<fs, args, candidate_path, discovered, summary_raised, searched,
                   csv_fallback, markers, failing, exit_status, unhandled, text, scan,
                   table>>

NextCsv == OpenCsv \/ ReadRowStep \/ ReadEnd

SpecCsv == InitCsv /\ [][NextCsv]_vars

(***************************************************************************)
(* Properties of main (Spec)                                               *)
(***************************************************************************)
Finished == pc = "done"
Obtained == pc \in {"report", "verdict", "done"} /\ raised = "none" /\ ~IsNone(log_path)

SummaryFiles == Glob(fs, DEFAULT_SUMMARY_GLOB)
CsvFiles == Glob(fs, DEFAULT_CSV_GLOB)
Newest(files) == {p \in files : \A q \in files : fs.mtime[q] <= fs.mtime[p]}
CustomPattern == args.pattern \notin {None, Some("")}
ExplicitFile == args.log_file # None
AfterDiscovery == pc # "main"

\* C1: every run of main ends with exit status 0, 1 or 2 and no unhandled
\* error: 0 exactly when statistics were obtained and every mean_error is
\* below the threshold, 1 exactly when statistics were obtained and some
\* mean_error is not below it, 2 for every discovery or parsing failure.
C1_ExitContract ==
    Finished =>
        /\ ~unhandled
        /\ exit_status \in {Some(0), Some(1), Some(2)}
        /\ exit_status = Some(0) <=>
              /\ Obtained
              /\ \A i \in 1..Len(stats) : FloatLt(stats[i].mean_error, args.threshold)
        /\ exit_status = Some(1) <=>
              /\ Obtained
              /\ \E i \in 1..Len(stats) : ~FloatLt(stats[i].mean_error, args.threshold)
        /\ raised # "none" => exit_status = Some(2)

\* C2: on a summary text, the CSV fallback is attempted only when the
\* summary parse failed with EmptyDataset; after a MalformedNumber no CSV is
\* searched for and MalformedNumber is the failure of the run.
C2_FallbackOnlyOnEmptyDataset ==
    /\ searched => summary_raised = "EmptyDataset"
    /\ (Finished /\ summary_raised = "MalformedNumber") =>
            (~searched /\ raised = "MalformedNumber")

MarkedFail == SelectSeq(markers, LAMBDA m : m.marker = "FAIL")

\* C3: the marker of every vehicle is OK exactly when mean_error < threshold;
\* the vehicles marked FAIL are the failing vehicles of main, and any of them
\* makes the run exit with status 1.
C3_MarkersMatchVerdict ==
    (Finished /\ Obtained) =>
        /\ Len(markers) = Len(stats)
        /\ \A i \in 1..Len(stats) :
              markers[i].marker = "OK" <=>
                  FloatLt(stats[i].mean_error, args.threshold)
        /\ [i \in 1..Len(MarkedFail) |-> MarkedFail[i].vehicle_id]
              = [i \in 1..Len(failing) |-> failing[i].vehicle_id]
        /\ MarkedFail # <<>> <=> exit_status = Some(1)

C5_ExplicitBypassesDiscovery ==
    AfterDiscovery =>
        IF ExplicitFile
        THEN /\ ~discovered
             /\ raised \notin {"DirectoryNotFound", "NoLogsFound"}
             /\ candidate_path = args.log_file
        ELSE /\ discovered
             /\ ~fs.exists => (raised = "DirectoryNotFound" /\ exit_status = Some(2))
             /\ (/\ fs.exists
                 /\ IF CustomPattern THEN Glob(fs, Get(args.pattern)) = {}
                    ELSE SummaryFiles = {} /\ CsvFiles = {})
                    => (raised = "NoLogsFound" /\ exit_status = Some(2))
             /\ raised \in {"DirectoryNotFound", "NoLogsFound"} => Finished

\* C5 witness: an explicit log file was loaded from an existing, empty directory.
C5_Witness ==
    /\ Finished /\ ExplicitFile /\ ~discovered
    /\ fs.exists /\ Listing(fs) = {}
    /\ candidate_path = args.log_file
    /\ raised = "FileNotFound"

SameTimestampCsv == CsvPath(Get(candidate_path).ts)

FallbackFromEmpty ==
    /\ searched
    /\ summary_raised = "EmptyDataset"
    /\ Get(candidate_path).prefix = "statistics_summary_"

\* C6 as stated: whenever the parse of statistics_summary_<T>.txt raised
\* EmptyDataset and position_accuracy_<T>.csv exists, that CSV is the
\* fallback and the path returned.
C6_SameTimestampCsvAnyT ==
    (FallbackFromEmpty /\ SameTimestampCsv \in Listing(fs)) =>
        /\ csv_fallback = Some(SameTimestampCsv)
        /\ Obtained => log_path = Some(SameTimestampCsv)

\* C6 amended: whenever the parse of statistics_summary_<T>.txt with a
\* non-empty T raised EmptyDataset and position_accuracy_<T>.csv exists, that
\* CSV is the fallback and the path returned, whatever newer CSV exists; a
\* newest CSV is the fallback when T is empty or that CSV is missing.
C6_SameTimestampCsv ==
    FallbackFromEmpty =>
        IF Get(candidate_path).ts # "" /\ SameTimestampCsv \in Listing(fs)
        THEN /\ csv_fallback = Some(SameTimestampCsv)
             /\ Obtained => log_path = Some(SameTimestampCsv)
        ELSE IF CsvFiles # {}
             THEN /\ csv_fallback \in {Some(p) : p \in Newest(CsvFiles)}
                  /\ Obtained => log_path = csv_fallback
             ELSE csv_fallback = None /\ raised = "EmptyDataset"

\* C6 witness: the same-timestamp CSV was returned although another CSV is newer.
C6_Witness ==
    /\ FallbackFromEmpty /\ Obtained
    /\ candidate_path = Some(SummaryPath("t1"))
    /\ log_path = Some(CsvPath("t1"))
    /\ CsvPath("") \in Listing(fs)
    /\ fs.mtime[CsvPath("t1")] < fs.mtime[CsvPath("")]

(***************************************************************************)
(* Properties of the parsers (SpecSummary, SpecCsv)                        *)
(***************************************************************************)
Returned == pc \in {"scanned", "read"} /\ raised = "none"

\* C7: every result set returned is strictly ascending by vehicle_id, hence
\* sorted and without two entries of the same vehicle_id.
C7_SortedUnique ==
    Returned =>
        \A i, j \in 1..Len(stats) :
            i < j => StrLess(stats[i].vehicle_id, stats[j].vehicle_id)

ActiveLines == SelectSeq(text, LAMBDA line : line.prefix = "active vehicles:")

Usable(row) ==
    /\ ~IsNone(row.VehicleID) /\ Get(row.VehicleID) # <<>>
    /\ ~IsNone(row.PositionError) /\ PyFloat(Get(row.PositionError)).ok

UsableRows == SelectSeq(text, Usable)
RowsOf(vid) == SelectSeq(UsableRows, LAMBDA row : Get(row.VehicleID) = vid)
ErrorsOf(rows) == [k \in 1..Len(rows) |-> PyFloat(Get(rows[k].PositionError)).val]

FloatEq(a, b) ==
    \/ a.nan /\ b.nan
    \/ ~a.nan /\ ~b.nan /\ a.num * b.den = b.num * a.den

RECURSIVE SumCounts(_)
SumCounts(ss) == IF ss = <<>> THEN 0 ELSE Head(ss).sample_count + SumCounts(Tail(ss))

\* C9: in a result from a CSV, each vehicle's sample_count is the number of
\* its usable rows and its mean_error their sum divided by that number;
\* total_entries is the sum of the sample counts, the number of usable rows;
\* active_vehicles is the number of vehicles in the result.
C9_CsvAggregates ==
    (pc = "read" /\ raised = "none") =>
        /\ \A i \in 1..Len(stats) :
              LET rows == RowsOf(stats[i].vehicle_id)
              IN  /\ rows # <<>>
                  /\ stats[i].sample_count = Len(rows)
                  /\ FloatEq(stats[i].mean_error,
                             FloatDiv(SumFloats(ErrorsOf(rows), Float(0, 1)), Len(rows)))
        /\ \A k \in 1..Len(UsableRows) :
              \E i \in 1..Len(stats) : stats[i].vehicle_id = Get(UsableRows[k].VehicleID)
        /\ metadata.total_entries = Some(SumCounts(stats))
        /\ metadata.total_entries = Some(Len(UsableRows))
        /\ metadata.active_vehicles = Some(Len(stats))

\* C9 witness: two vehicles, one of them with two samples.
C9_Witness ==
    /\ pc = "read" /\ raised = "none"
    /\ Len(stats) = 2
    /\ \E i \in 1..2 : stats[i].sample_count = 2
    /\ metadata.total_entries = Some(3)

CleanResult ==
    LoadCsv(CsvPath("t1"), [fieldnames |-> table.fieldnames, rows |-> UsableRows])

\* C10: with the required columns present, malformed rows are skipped: the
\* parse yields what the parse of the usable rows alone yields, succeeds
\* when there is a usable row and raises EmptyDataset when there is none.
C10_MalformedRowsSkipped ==
    (pc = "read" /\ HeaderError(table.fieldnames) = "none") =>
        /\ raised = CleanResult.raised
        /\ stats = CleanResult.stats
        /\ UsableRows # <<>> => raised = "none"
        /\ UsableRows = <<>> => raised = "EmptyDataset"

\* C10 witness: a malformed row between two usable rows of one vehicle.
C10_Witness ==
    /\ pc = "read" /\ raised = "none"
    /\ Len(text) = 3
    /\ Usable(text[1]) /\ ~Usable(text[2]) /\ Usable(text[3])
    /\ Len(stats) = 1 /\ stats[1].sample_count = 2

(***************************************************************************)
(* Properties of the header check and of the scanner's records             *)
(***************************************************************************)
LacksColumn(fieldnames) ==
    \/ IsNone(fieldnames)
    \/ ~({"VehicleID", "PositionError"} \subseteq Get(fieldnames))

\* C11: a file whose header lacks the vehicle-id column, the position-error
\* column or both, or that has no header row, fails with SchemaError before
\* any row is read, and yields no result.
C11_SchemaError ==
    (pc # "open" /\ LacksColumn(table.fieldnames)) =>
        /\ raised = "SchemaError"
        /\ pc = "read"
        /\ text = <<>>
        /\ table.errors = EmptyErrors
        /\ stats = <<>> /\ IsNone(log_path)

NamedVehicle(line) == line.prefix = "vehicle:" /\ Strip(line.rest) # <<>>
IsAvgError(line) == line.prefix = "avg error:"
IsSamples(line) == line.prefix = "samples:"

\* The `vehicle: <name>` line the record open at line i was opened by: the
\* last one before i, if no `avg error:` line lies between; 0 if none.
OpenedAt(i) ==
    LET named == {j \in 1..(i - 1) : NamedVehicle(text[j])}
        last == CHOOSE j \in named : \A k \in named : k <= j
    IN  IF named = {} THEN 0
        ELSE IF \E k \in (last + 1)..(i - 1) : IsAvgError(text[k]) THEN 0
        ELSE last

\* The `avg error:` lines met while a record was open, in text order.
RECURSIVE Emitting(_)
Emitting(i) ==
    IF i = 0 THEN <<>>
    ELSE IF IsAvgError(text[i]) /\ OpenedAt(i) # 0 THEN Append(Emitting(i - 1), i)
    ELSE Emitting(i - 1)

\* The value of the last `samples:` line strictly between lines j and i, 0 if none.
PendingSamples(j, i) ==
    LET between == {k \in (j + 1)..(i - 1) : IsSamples(text[k])}
        last == CHOOSE k \in between : \A l \in between : l <= k
    IN  IF between = {} THEN 0 ELSE parse_integer(text[last].rest).val

\* C12: the records emitted so far are, in order, one per `avg error:` line
\* met while a record was open; each carries the name of the most recent
\* `vehicle: <name>` line and the value of the last `samples:` line between
\* the two, or 0 if there is none.
C12_EmittedRecords ==
    (pc = "scan" /\ scan.raised = "none") =>
        LET at == Emitting(Len(text))
        IN  /\ Len(scan.stats) = Len(at)
            /\ \A n \in 1..Len(at) :
                  /\ scan.stats[n].vehicle_id = Strip(text[OpenedAt(at[n])].rest)
                  /\ scan.stats[n].sample_count = PendingSamples(OpenedAt(at[n]), at[n])

\* C12 witness: a sample count set for one vehicle did not reach the record
\* of the vehicle opened after it.
C12_Witness ==
    /\ pc = "scan" /\ scan.raised = "none"
    /\ Len(text) = 4
    /\ NamedVehicle(text[1]) /\ text[2] = Line("samples:", <<" ", "3">>)
    /\ NamedVehicle(text[3]) /\ IsAvgError(text[4])
    /\ Len(scan.stats) = 1
    /\ scan.stats[1].vehicle_id = Strip(text[3].rest)
    /\ scan.stats[1].sample_count = 0

VehicleLines == SelectSeq(text, LAMBDA line : line.prefix = "vehicle:")

\* C13: a `samples:` or `avg error:` line met while no record is open leaves
\* the whole scanner state as it was (records, open record, metadata, no
\* failure raised); a line emits at most one record, only from an open
\* record, which it closes; there are never more records than `vehicle:`
\* lines, and every record has a non-empty vehicle_id.
C13_ClosedRecordFrame ==
    [][text' # text =>
        LET line == text'[Len(text')]
        IN  /\ (IsNone(scan.vehicle_id) /\ (IsSamples(line) \/ IsAvgError(line)))
                  => scan' = scan
            /\ Len(scan'.stats) <= Len(scan.stats) + 1
            /\ Len(scan'.stats) > Len(scan.stats)
                  => (~IsNone(scan.vehicle_id) /\ IsNone(scan'.vehicle_id))
            /\ Len(scan'.stats) <= Len(VehicleLines')
            /\ \A i \in 1..Len(scan'.stats) : scan'.stats[i].vehicle_id # <<>>]_vars

\* C13 witness: after a record was closed, an `avg error:` line that is no
\* number was met and nothing was raised or emitted.
C13_Witness ==
    /\ pc = "scan" /\ scan.raised = "none"
    /\ Len(text) = 4
    /\ NamedVehicle(text[1]) /\ IsAvgError(text[2])
    /\ text[3] = Line("samples:", <<" ", "n", "/", "a">>)
    /\ text[4] = Line("avg error:", <<" ", "x">>)
    /\ Len(scan.stats) = 1
    /\ IsNone(scan.vehicle_id) /\ IsNone(scan.samples)

====
